---- MODULE Spec2Model ----
(***************************************************************************)
(* State-machine model of the LWS Analytics browser script                 *)
(* (src/src/index.ts): the module-level session state, the browser objects *)
(* the script patches or listens on, and one action per public operation   *)
(* or browser event.                                                       *)
(***************************************************************************)
EXTENDS Integers, Sequences, FiniteSets, TLC

\* ---------------------------------------------------------------- bounds
MaxHandles == 2
MaxIds == 2
MaxInflight == 1

\* ------------------------------------------------------- value domains
Undefined == "undefined"
Null == "null"
Native == "native"
Wrapper == "wrapper"

PAGE_VIEW == "page_view"
CUSTOM == "custom"

Urls == {"/", "/a"}
Names == {"", "x"}
OptFlags == {"omitted", "true", "false"}

\* (siteId, endpoint, debug) triples passed to init
Targets ==
  { <<"siteA", "epA", FALSE>>, <<"siteB", "epB", TRUE>>,
    <<"", "epA", FALSE>>, <<"siteA", "", TRUE>>,
    <<"siteA", Undefined, FALSE>> }

\* JavaScript truthiness of a string-or-undefined value
Falsy(v) == v = "" \/ v = Undefined \/ v = Null

\* -------------------------------------------------------------- state
VARIABLES
  instance,              \* module: current handle (0 = null)
  config,                \* module: merged configuration or NullConfig
  lastTrackedUrl,        \* module: Null or a URL
  originalPushState,     \* module: Null or the saved function
  originalReplaceState,  \* module: Null or the saved function
  historyPushState,      \* history.pushState: Native or Wrapper
  historyReplaceState,   \* history.replaceState: Native or Wrapper
  clickListener,         \* handleClick registered on document
  popstateListener,      \* handlePopState registered on window
  dclListener,           \* trackPageViewInternal registered for DOMContentLoaded
  readyState,            \* document.readyState
  href,                  \* window.location.href
  windowLwsAnalytics,    \* window.LwsAnalytics is defined
  windowLwsa,            \* window.lwsa is defined
  storage,               \* localStorage item under STORAGE_KEY (0 = absent)
  storageMode,           \* "ok", "readThrows" or "writeThrows"
  hasWindow,             \* typeof window !== 'undefined'
  nextHandle,            \* number of handles returned by init so far
  nextId,                \* number of identifiers generated so far
  inflight,              \* transmissions that will be rejected, oldest first
  raised,                \* an exception escaped the last operation
  lastOp,                \* the operation that ran last
  out,                   \* ordered effects of the last operation
  bound                  \* history: <<siteId, endpoint>> passed to the init
                         \* that returned each handle (kept by SpecBound)

vars ==
  << instance, config, lastTrackedUrl, originalPushState, originalReplaceState,
     historyPushState, historyReplaceState, clickListener, popstateListener,
     dclListener, readyState, href, windowLwsAnalytics, windowLwsa, storage,
     storageMode, hasWindow, nextHandle, nextId, inflight, raised, lastOp, out,
     bound >>

NullConfig ==
  [ isNull |-> TRUE, siteId |-> Undefined, endpoint |-> Undefined,
    debug |-> FALSE, trackPageViewOnInit |-> FALSE,
    trackSpaNavigation |-> FALSE, trackClicks |-> FALSE ]

\* The state as one record, so that handlers compose as the code does.
Cur ==
  [ instance |-> instance, config |-> config,
    lastTrackedUrl |-> lastTrackedUrl,
    originalPushState |-> originalPushState,
    originalReplaceState |-> originalReplaceState,
    historyPushState |-> historyPushState,
    historyReplaceState |-> historyReplaceState,
    clickListener |-> clickListener, popstateListener |-> popstateListener,
    dclListener |-> dclListener, readyState |-> readyState, href |-> href,
    windowLwsAnalytics |-> windowLwsAnalytics, windowLwsa |-> windowLwsa,
    storage |-> storage,
    storageMode |-> storageMode, hasWindow |-> hasWindow,
    nextHandle |-> nextHandle, nextId |-> nextId, inflight |-> inflight,
    raised |-> FALSE, out |-> << >> ]

CommitState(s, op) ==
  /\ instance' = s.instance
  /\ config' = s.config
  /\ lastTrackedUrl' = s.lastTrackedUrl
  /\ originalPushState' = s.originalPushState
  /\ originalReplaceState' = s.originalReplaceState
  /\ historyPushState' = s.historyPushState
  /\ historyReplaceState' = s.historyReplaceState
  /\ clickListener' = s.clickListener
  /\ popstateListener' = s.popstateListener
  /\ dclListener' = s.dclListener
  /\ readyState' = s.readyState
  /\ href' = s.href
  /\ windowLwsAnalytics' = s.windowLwsAnalytics
  /\ windowLwsa' = s.windowLwsa
  /\ storage' = s.storage
  /\ storageMode' = s.storageMode
  /\ hasWindow' = s.hasWindow
  /\ nextHandle' = s.nextHandle
  /\ nextId' = s.nextId
  /\ inflight' = s.inflight
  /\ raised' = s.raised
  /\ out' = s.out
  /\ lastOp' = op

Commit(s, op) == CommitState(s, op) /\ bound' = bound

\* ------------------------------------------------------------- effects
NoPayload ==
  [ identifier |-> Undefined, type |-> "", name |-> "",
    client_id |-> << "", 0 >>, url |-> "" ]

Ev(kind, msg, h, endpoint, payload) ==
  [ kind |-> kind, msg |-> msg, h |-> h, endpoint |-> endpoint,
    payload |-> payload ]

emit(s, e) == [s EXCEPT !.out = Append(@, e)]

\* console.warn / console.log; msg is the message argument: calls through
\* warn() and log() pass the '[LWS Analytics]' prefix as a separate argument,
\* direct calls have it inside the message.
consoleWarn(s, msg) == emit(s, Ev("warn", msg, 0, "", NoPayload))
consoleLog(s, msg) == emit(s, Ev("log", msg, 0, "", NoPayload))

log(s, msg) == IF s.config.debug THEN consoleLog(s, msg) ELSE s

warn(s, msg) == IF s.config.debug THEN consoleWarn(s, msg) ELSE s

\* ---------------------------------------------------- identifiers, payload
\* generateUniqueId(): a value never returned before; r.id is its number.
generateUniqueId(s) ==
  [ s |-> [s EXCEPT !.nextId = @ + 1], id |-> s.nextId + 1 ]

\* mutant: the stored identifier is not reused
getClientIdTryAlwaysNew(s) ==
  IF s.storageMode = "readThrows"
  THEN [ s |-> s, id |-> << "", 0 >>, threw |-> TRUE ]
  ELSE LET g == generateUniqueId(s)
       IN  IF s.storageMode = "writeThrows"
           THEN [ s |-> g.s, id |-> << "", 0 >>, threw |-> TRUE ]
           ELSE [ s |-> [g.s EXCEPT !.storage = g.id], id |-> << "", g.id >>,
                  threw |-> FALSE ]

\* The try block of getClientId(); threw says that localStorage raised.
\* Client identifiers are pairs <<prefix, number>>.
getClientIdTry(s) ==
  IF s.storageMode = "readThrows"
  THEN [ s |-> s, id |-> << "", 0 >>, threw |-> TRUE ]
  ELSE IF s.storage # 0
  THEN [ s |-> s, id |-> << "", s.storage >>, threw |-> FALSE ]
  ELSE LET g == generateUniqueId(s)
       IN  IF s.storageMode = "writeThrows"
           THEN [ s |-> g.s, id |-> << "", 0 >>, threw |-> TRUE ]
           ELSE [ s |-> [g.s EXCEPT !.storage = g.id], id |-> << "", g.id >>,
                  threw |-> FALSE ]

\* mutant: the fallback identifier lacks the 'session_' prefix
getClientIdNoPrefix(s) ==
  LET t == getClientIdTry(s)
  IN  IF t.threw
      THEN LET g == generateUniqueId(t.s)
           IN  [ s |-> g.s, id |-> << "", g.id >>, threw |-> FALSE ]
      ELSE t

\* mutant: the catch block is missing, a storage exception propagates
getClientIdNoCatch(s) == getClientIdTry(s)

\* getClientId(): the catch block returns 'session_' + generateUniqueId().
getClientId(s) ==
  LET t == getClientIdTry(s)
  IN  IF t.threw
      THEN LET g == generateUniqueId(t.s)
           IN  [ s |-> g.s, id |-> << "session_", g.id >>, threw |-> FALSE ]
      ELSE t

buildPayload(s, type, name) ==
  LET c == getClientId(s)
  IN  [ s |-> c.s, threw |-> c.threw,
        payload |-> [ identifier |-> s.config.siteId, type |-> type,
                      name |-> name, client_id |-> c.id, url |-> s.href ] ]

\* fetch(endpoint, ...): the call is an effect; rej says whether the promise
\* will be rejected, in which case the catch handler is pending.
fetch(s, endpoint, payload, rej) ==
  LET e == emit(s, Ev("fetch", "", 0, endpoint, payload))
  IN  IF rej /\ Len(s.inflight) < MaxInflight
      THEN [e EXCEPT !.inflight = Append(@, s.config.debug)]
      ELSE e

\* mutant: the endpoint guard is dropped
sendPayloadNoGuard(s, payload, rej) ==
  fetch(log(s, "Sending payload"), s.config.endpoint, payload, rej)

sendPayload(s, payload, rej) ==
  IF Falsy(s.config.endpoint)
  THEN warn(s, "No endpoint configured")
  ELSE fetch(log(s, "Sending payload"), s.config.endpoint, payload, rej)

\* An exception of buildPayload propagates: nothing is sent.
trackPageViewInternal(s, rej) ==
  LET b == buildPayload(s, PAGE_VIEW, "Page view")
  IN  IF b.threw THEN [b.s EXCEPT !.raised = TRUE]
      ELSE sendPayload(b.s, b.payload, rej)

\* mutant: custom events are classified as page views
trackEventInternalAsPageView(s, name, rej) ==
  IF Falsy(name)
  THEN warn(s, "trackEvent() requires an event name")
  ELSE LET b == buildPayload(s, PAGE_VIEW, name)
       IN  IF b.threw THEN [b.s EXCEPT !.raised = TRUE]
           ELSE sendPayload(b.s, b.payload, rej)

trackEventInternal(s, name, rej) ==
  IF Falsy(name)
  THEN warn(s, "trackEvent() requires an event name")
  ELSE LET b == buildPayload(s, CUSTOM, name)
       IN  IF b.threw THEN [b.s EXCEPT !.raised = TRUE]
           ELSE sendPayload(b.s, b.payload, rej)

\* ------------------------------------------------------------- listeners
NoAttr == "noattr"

\* mutant: elements with an empty attribute value are skipped
RECURSIVE closestFromNonEmpty(_, _)
closestFromNonEmpty(chain, i) ==
  IF i > Len(chain) THEN 0
  ELSE IF chain[i] # NoAttr /\ chain[i] # "" THEN i
  ELSE closestFromNonEmpty(chain, i + 1)

\* Element.closest('[data-lwsa-event]') over the chain target, parent, ...:
\* the index of the first element carrying the attribute, 0 if none.
RECURSIVE closestFrom(_, _)
closestFrom(chain, i) ==
  IF i > Len(chain) THEN 0
  ELSE IF chain[i] # NoAttr THEN i
  ELSE closestFrom(chain, i + 1)

closest(chain) == closestFrom(chain, 1)

handleClick(s, chain, rej) ==
  LET element == closest(chain)
  IN  IF element = 0 THEN s
      ELSE LET eventName == chain[element]
           IN  IF ~Falsy(eventName)
               THEN trackEventInternal(
                      log(log(s, "Click detected on element"), "Event name"),
                      eventName, rej)
               ELSE s

\* mutant: the URL comparison is dropped
handleUrlChangeNoCompare(s, rej) ==
  trackPageViewInternal([s EXCEPT !.lastTrackedUrl = s.href], rej)

handleUrlChange(s, rej) ==
  LET currentUrl == s.href
  IN  IF currentUrl # s.lastTrackedUrl
      THEN trackPageViewInternal([s EXCEPT !.lastTrackedUrl = currentUrl], rej)
      ELSE s

handlePopState(s, rej) == handleUrlChange(s, rej)

setupSpaTracking(s) ==
  [s EXCEPT !.lastTrackedUrl = s.href,
            !.originalPushState = s.historyPushState,
            !.historyPushState = Wrapper,
            !.originalReplaceState = s.historyReplaceState,
            !.historyReplaceState = Wrapper,
            !.popstateListener = TRUE]

\* mutant: the saved references are not cleared
teardownSpaTrackingKeepsRefs(s) ==
  LET a == IF s.originalPushState # Null
           THEN [s EXCEPT !.historyPushState = s.originalPushState]
           ELSE s
      b == IF a.originalReplaceState # Null
           THEN [a EXCEPT !.historyReplaceState = a.originalReplaceState]
           ELSE a
  IN  [b EXCEPT !.popstateListener = FALSE]

teardownSpaTracking(s) ==
  LET a == IF s.originalPushState # Null
           THEN [s EXCEPT !.historyPushState = s.originalPushState,
                          !.originalPushState = Null]
           ELSE s
      b == IF a.originalReplaceState # Null
           THEN [a EXCEPT !.historyReplaceState = a.originalReplaceState,
                          !.originalReplaceState = Null]
           ELSE a
  IN  [b EXCEPT !.popstateListener = FALSE]

\* ------------------------------------------------------------- lifecycle
\* mutant: destroy leaves the click listener registered
destroyKeepsClickListener(s) ==
  LET b == IF s.config.trackSpaNavigation THEN teardownSpaTracking(s) ELSE s
  IN  [b EXCEPT !.config = NullConfig, !.instance = 0,
                !.lastTrackedUrl = Null]

\* mutant: destroy leaves the instance in place
destroyKeepsInstance(s) ==
  LET a == IF s.config.trackClicks
           THEN [s EXCEPT !.clickListener = FALSE] ELSE s
      b == IF a.config.trackSpaNavigation THEN teardownSpaTracking(a) ELSE a
  IN  [b EXCEPT !.config = NullConfig, !.lastTrackedUrl = Null]

\* mutant: destroy leaves the configuration in place
destroyKeepsConfig(s) ==
  LET a == IF s.config.trackClicks
           THEN [s EXCEPT !.clickListener = FALSE] ELSE s
      b == IF a.config.trackSpaNavigation THEN teardownSpaTracking(a) ELSE a
  IN  [b EXCEPT !.instance = 0, !.lastTrackedUrl = Null]

\* mutant: destroy leaves the history wrappers installed
destroyKeepsWrappers(s) ==
  LET a == IF s.config.trackClicks
           THEN [s EXCEPT !.clickListener = FALSE] ELSE s
  IN  [a EXCEPT !.config = NullConfig, !.instance = 0,
                !.lastTrackedUrl = Null]

\* mutant: destroy leaves the last-tracked-URL marker in place
destroyKeepsMarker(s) ==
  LET a == IF s.config.trackClicks
           THEN [s EXCEPT !.clickListener = FALSE] ELSE s
      b == IF a.config.trackSpaNavigation THEN teardownSpaTracking(a) ELSE a
  IN  [b EXCEPT !.config = NullConfig, !.instance = 0]

\* The destroy closure of a handle: it reads the module-level config.
destroy(s) ==
  LET a == IF s.config.trackClicks
           THEN [s EXCEPT !.clickListener = FALSE] ELSE s
      b == IF a.config.trackSpaNavigation THEN teardownSpaTracking(a) ELSE a
  IN  [b EXCEPT !.config = NullConfig, !.instance = 0,
                !.lastTrackedUrl = Null]

\* A call of handle h's destroy, recorded as an effect.
callDestroy(s, h) == destroy(emit(s, Ev("destroy", "", h, "", NoPayload)))

\* { trackPageViewOnInit: true, trackSpaNavigation: true, trackClicks: true,
\*   ...options }
\* mutant: the defaults are not merged in
flagNoDefault(v) == v = "true"

flag(v) == IF v = "omitted" THEN TRUE ELSE v = "true"

mergeDefaults(options) ==
  [ isNull |-> FALSE, siteId |-> options.siteId,
    endpoint |-> options.endpoint, debug |-> options.debug,
    trackPageViewOnInit |-> flag(options.trackPageViewOnInit),
    trackSpaNavigation |-> flag(options.trackSpaNavigation),
    trackClicks |-> flag(options.trackClicks) ]

\* mutant: init forgets to destroy the previous instance
supersedeSkipped(s) == s

\* if (instance) { instance.destroy(); }
supersede(s) == IF s.instance # 0 THEN callDestroy(s, s.instance) ELSE s

\* mutant: the global compatibility object is not published
initBrowserNoGlobal(s, options, rej) ==
  LET s1 == supersede(s)
      s2 == IF Falsy(options.siteId)
            THEN consoleWarn(s1, "[LWS Analytics] No siteId configured") ELSE s1
      s3 == IF Falsy(options.endpoint)
            THEN consoleWarn(s2, "[LWS Analytics] No endpoint configured") ELSE s2
      s4 == [s3 EXCEPT !.config = mergeDefaults(options)]
      s5 == IF s4.config.trackClicks
            THEN [s4 EXCEPT !.clickListener = TRUE] ELSE s4
      s6 == IF s5.config.trackSpaNavigation THEN setupSpaTracking(s5) ELSE s5
      s7 == IF s6.config.trackPageViewOnInit
            THEN IF s6.readyState = "loading"
                 THEN [s6 EXCEPT !.dclListener = TRUE]
                 ELSE trackPageViewInternal(s6, rej)
            ELSE s6
      h  == s7.nextHandle + 1
      s8 == emit([s7 EXCEPT !.instance = h, !.nextHandle = h],
                 Ev("current", "", h, "", NoPayload))
      s9 == s8
  IN  IF s7.raised THEN s7 ELSE log(s9, "Initialized with config")

\* mutant: init returns after the validation warnings
initBrowserAborts(s, options, rej) ==
  LET s1 == supersede(s)
      s2 == IF Falsy(options.siteId)
            THEN consoleWarn(s1, "[LWS Analytics] No siteId configured") ELSE s1
      s3 == IF Falsy(options.endpoint)
            THEN consoleWarn(s2, "[LWS Analytics] No endpoint configured") ELSE s2
      s4 == [s3 EXCEPT !.config = mergeDefaults(options)]
      s5 == IF s4.config.trackClicks
            THEN [s4 EXCEPT !.clickListener = TRUE] ELSE s4
      s6 == IF s5.config.trackSpaNavigation THEN setupSpaTracking(s5) ELSE s5
      s7 == IF s6.config.trackPageViewOnInit
            THEN IF s6.readyState = "loading"
                 THEN [s6 EXCEPT !.dclListener = TRUE]
                 ELSE trackPageViewInternal(s6, rej)
            ELSE s6
      h  == s7.nextHandle + 1
      s8 == emit([s7 EXCEPT !.instance = h, !.nextHandle = h],
                 Ev("current", "", h, "", NoPayload))
      s9 == [s8 EXCEPT !.windowLwsAnalytics = TRUE]
  IN  IF Falsy(options.siteId) \/ Falsy(options.endpoint) THEN s3
      ELSE IF s7.raised THEN s7 ELSE log(s9, "Initialized with config")

\* init(options) in a browser context; the new handle is nextHandle + 1.
\* An exception of the initial page view would abort the rest of init.
\* mutant: the initial page view is sent while the document is loading
initBrowserNoDefer(s, options, rej) ==
  LET s1 == supersede(s)
      s2 == IF Falsy(options.siteId)
            THEN consoleWarn(s1, "[LWS Analytics] No siteId configured") ELSE s1
      s3 == IF Falsy(options.endpoint)
            THEN consoleWarn(s2, "[LWS Analytics] No endpoint configured") ELSE s2
      s4 == [s3 EXCEPT !.config = mergeDefaults(options)]
      s5 == IF s4.config.trackClicks
            THEN [s4 EXCEPT !.clickListener = TRUE] ELSE s4
      s6 == IF s5.config.trackSpaNavigation THEN setupSpaTracking(s5) ELSE s5
      s7 == IF s6.config.trackPageViewOnInit
            THEN trackPageViewInternal(s6, rej)
            ELSE s6
      h  == s7.nextHandle + 1
      s8 == emit([s7 EXCEPT !.instance = h, !.nextHandle = h],
                 Ev("current", "", h, "", NoPayload))
      s9 == [s8 EXCEPT !.windowLwsAnalytics = TRUE]
  IN  IF s7.raised THEN s7 ELSE log(s9, "Initialized with config")

initBrowser(s, options, rej) ==
  LET s1 == supersede(s)
      s2 == IF Falsy(options.siteId)
            THEN consoleWarn(s1, "[LWS Analytics] No siteId configured") ELSE s1
      s3 == IF Falsy(options.endpoint)
            THEN consoleWarn(s2, "[LWS Analytics] No endpoint configured") ELSE s2
      s4 == [s3 EXCEPT !.config = mergeDefaults(options)]
      s5 == IF s4.config.trackClicks
            THEN [s4 EXCEPT !.clickListener = TRUE] ELSE s4
      s6 == IF s5.config.trackSpaNavigation THEN setupSpaTracking(s5) ELSE s5
      s7 == IF s6.config.trackPageViewOnInit
            THEN IF s6.readyState = "loading"
                 THEN [s6 EXCEPT !.dclListener = TRUE]
                 ELSE trackPageViewInternal(s6, rej)
            ELSE s6
      h  == s7.nextHandle + 1
      s8 == emit([s7 EXCEPT !.instance = h, !.nextHandle = h],
                 Ev("current", "", h, "", NoPayload))
      s9 == [s8 EXCEPT !.windowLwsAnalytics = TRUE]
  IN  IF s7.raised THEN s7 ELSE log(s9, "Initialized with config")

\* mutant: the check for a browser environment is dropped
initNoWindowCheck(s, options, rej) == initBrowser(s, options, rej)

\* init(options): outside a browser an inert handle is returned.
init(s, options, rej) ==
  IF ~s.hasWindow
  THEN [consoleWarn(s,
      "[LWS Analytics] Cannot initialize in non-browser environment")
          EXCEPT !.nextHandle = @ + 1]
  ELSE initBrowser(s, options, rej)

\* mutant: the instance check is dropped
trackEventNoGuard(s, eventName, rej) == trackEventInternal(s, eventName, rej)

\* export function trackEvent(eventName)
trackEvent(s, eventName, rej) ==
  IF s.instance = 0
  THEN consoleWarn(s, "[LWS Analytics] Not initialized. Call init() first.")
  ELSE trackEventInternal(s, eventName, rej)

\* export function trackPageView()
trackPageView(s, rej) ==
  IF s.instance = 0
  THEN consoleWarn(s, "[LWS Analytics] Not initialized. Call init() first.")
  ELSE trackPageViewInternal(s, rej)

isReady(s) == s.instance # 0

getInstance(s) == s.instance

\* mutant: the standalone script falls back to a default endpoint
bootstrapDefaultEndpoint(s, siteId, endpoint, debugSlot, rej) ==
  LET debug == debugSlot = "true"
  IN  IF Falsy(siteId)
      THEN IF debug
           THEN consoleWarn(s,
             "[LWS Analytics] No identifier configured. Set window.LWS_ANALYTICS_SITE_ID before loading the script")
           ELSE s
      ELSE init(s, [ siteId |-> siteId,
                     endpoint |-> IF Falsy(endpoint)
                                  THEN "https://dashboard.lws-analytics.eu/api/track"
                                  ELSE endpoint,
                     debug |-> debug,
                     trackPageViewOnInit |-> "omitted",
                     trackSpaNavigation |-> "omitted",
                     trackClicks |-> "omitted" ], rej)

\* The standalone script's IIFE: the three arguments are the global slots
\* LWS_ANALYTICS_SITE_ID, LWS_ANALYTICS_ENDPOINT and LWS_ANALYTICS_DEBUG.
bootstrap(s, siteId, endpoint, debugSlot, rej) ==
  LET debug == debugSlot = "true"
  IN  IF Falsy(siteId)
      THEN IF debug
           THEN consoleWarn(s,
             "[LWS Analytics] No identifier configured. Set window.LWS_ANALYTICS_SITE_ID before loading the script")
           ELSE s
      ELSE IF Falsy(endpoint)
      THEN IF debug
           THEN consoleWarn(s,
             "[LWS Analytics] No endpoint configured. Set window.LWS_ANALYTICS_ENDPOINT before loading the script")
           ELSE s
      ELSE init(s, [ siteId |-> siteId, endpoint |-> endpoint,
                     debug |-> debug,
                     trackPageViewOnInit |-> "omitted",
                     trackSpaNavigation |-> "omitted",
                     trackClicks |-> "omitted" ], rej)

\* A handle's methods; handles returned outside a browser are inert.
handleTrackEvent(s, name, rej) ==
  IF s.hasWindow THEN trackEventInternal(s, name, rej) ELSE s

handleTrackPageView(s, rej) ==
  IF s.hasWindow THEN trackPageViewInternal(s, rej) ELSE s

handleDestroy(s, h) == IF s.hasWindow THEN callDestroy(s, h) ELSE s

\* mutant: the wrapper compares before it invokes the original function
pushStateCompareFirst(s, url, rej) ==
  IF s.historyPushState = Wrapper
  THEN LET a == handleUrlChange(s, rej)
       IN  IF a.originalPushState # Null THEN [a EXCEPT !.href = url] ELSE a
  ELSE [s EXCEPT !.href = url]

\* history.pushState(state, title, url) as currently installed
pushState(s, url, rej) ==
  IF s.historyPushState = Wrapper
  THEN handleUrlChange(
         IF s.originalPushState # Null THEN [s EXCEPT !.href = url] ELSE s,
         rej)
  ELSE [s EXCEPT !.href = url]

\* history.replaceState(state, title, url) as currently installed
replaceState(s, url, rej) ==
  IF s.historyReplaceState = Wrapper
  THEN handleUrlChange(
         IF s.originalReplaceState # Null THEN [s EXCEPT !.href = url] ELSE s,
         rej)
  ELSE [s EXCEPT !.href = url]

\* back/forward: the browser changes the URL, then dispatches popstate
popstate(s, url, rej) ==
  LET a == [s EXCEPT !.href = url]
  IN  IF a.popstateListener THEN handlePopState(a, rej) ELSE a

\* a click is dispatched to the document's click listeners
click(s, chain, rej) ==
  IF s.clickListener THEN handleClick(s, chain, rej) ELSE s

\* the document becomes interactive; the listener was added with once: true
domContentLoaded(s, rej) ==
  LET a == [s EXCEPT !.readyState = "interactive"]
  IN  IF a.dclListener
      THEN trackPageViewInternal([a EXCEPT !.dclListener = FALSE], rej)
      ELSE a

\* the catch handler of a rejected fetch promise
fetchRejected(s) ==
  warn([s EXCEPT !.inflight = Tail(@)], "Failed to send payload")

\* ---------------------------------------------------------------- inputs
Options ==
  { [ siteId |-> t[1], endpoint |-> t[2], debug |-> t[3],
      trackPageViewOnInit |-> pv, trackSpaNavigation |-> spa,
      trackClicks |-> clk ] :
    t \in Targets, pv \in OptFlags,
    spa \in {"omitted", "false"}, clk \in {"omitted", "false"} }

\* ancestor chains of a click target: the attribute value of the target,
\* of its parent, ...
Chains ==
  { <<NoAttr>>, <<"x">>, <<"">>, <<NoAttr, "x">>, <<"", "x">>, <<"x", "y">> }

Rej == IF Len(inflight) < MaxInflight THEN BOOLEAN ELSE {FALSE}

\* identifiers one tracked action may generate
NeedIds ==
  IF storageMode = "readThrows" THEN 1
  ELSE IF storage # 0 THEN 0
  ELSE IF storageMode = "writeThrows" THEN 2 ELSE 1

CanTrack == nextId + NeedIds <= MaxIds

Op(name, h, arg, chain) ==
  [ name |-> name, h |-> h, arg |-> arg, chain |-> chain,
    endpoint |-> Undefined, debug |-> Undefined ]

\* --------------------------------------------------------------- actions
Init ==
  /\ instance = 0
  /\ config = NullConfig
  /\ lastTrackedUrl = Null
  /\ originalPushState = Null
  /\ originalReplaceState = Null
  /\ historyPushState = Native
  /\ historyReplaceState = Native
  /\ clickListener = FALSE
  /\ popstateListener = FALSE
  /\ dclListener = FALSE
  /\ hasWindow \in BOOLEAN
  /\ readyState \in (IF hasWindow THEN {"loading", "interactive"}
                                  ELSE {"loading"})
  /\ href = "/"
  /\ windowLwsAnalytics = FALSE
  /\ windowLwsa = FALSE
  /\ storage = 0
  /\ storageMode \in (IF hasWindow THEN {"ok", "readThrows", "writeThrows"}
                                   ELSE {"ok"})
  /\ nextHandle = 0
  /\ nextId = 0
  /\ inflight = << >>
  /\ raised = FALSE
  /\ lastOp = Op("none", 0, "", << >>)
  /\ out = << >>
  /\ bound = << >>

CallInit ==
  /\ nextHandle < MaxHandles
  /\ CanTrack
  /\ \E options \in Options, rej \in Rej :
       Commit(init(Cur, options, rej),
              [Op("init", nextHandle + 1, options.trackPageViewOnInit, << >>)
                 EXCEPT !.endpoint = options.endpoint])

CallTrackEvent ==
  /\ CanTrack
  /\ \E name \in Names, rej \in Rej :
       Commit(trackEvent(Cur, name, rej), Op("trackEvent", 0, name, << >>))

CallTrackPageView ==
  /\ CanTrack
  /\ \E rej \in Rej :
       Commit(trackPageView(Cur, rej), Op("trackPageView", 0, "", << >>))

HandleTrackEvent ==
  /\ CanTrack
  /\ \E h \in 1..nextHandle, name \in Names, rej \in Rej :
       Commit(handleTrackEvent(Cur, name, rej),
              Op("handle.trackEvent", h, name, << >>))

HandleTrackPageView ==
  /\ CanTrack
  /\ \E h \in 1..nextHandle, rej \in Rej :
       Commit(handleTrackPageView(Cur, rej),
              Op("handle.trackPageView", h, "", << >>))

HandleDestroy ==
  \E h \in 1..nextHandle :
    Commit(handleDestroy(Cur, h), Op("handle.destroy", h, "", << >>))

GlobalTrackPageView ==
  /\ windowLwsAnalytics
  /\ CanTrack
  /\ \E rej \in Rej :
       Commit(trackPageViewInternal(Cur, rej),
              Op("LwsAnalytics.trackPageView", 0, "", << >>))

GlobalTrackCustomEvent ==
  /\ windowLwsAnalytics
  /\ CanTrack
  /\ \E name \in Names, rej \in Rej :
       Commit(trackEventInternal(Cur, name, rej),
              Op("LwsAnalytics.trackCustomEvent", 0, name, << >>))

Click ==
  /\ hasWindow
  /\ CanTrack
  /\ \E chain \in Chains, rej \in Rej :
       Commit(click(Cur, chain, rej), Op("click", 0, "", chain))

PushState ==
  /\ hasWindow
  /\ CanTrack
  /\ \E url \in Urls, rej \in Rej :
       Commit(pushState(Cur, url, rej), Op("pushState", 0, url, << >>))

ReplaceState ==
  /\ hasWindow
  /\ CanTrack
  /\ \E url \in Urls, rej \in Rej :
       Commit(replaceState(Cur, url, rej), Op("replaceState", 0, url, << >>))

PopState ==
  /\ hasWindow
  /\ CanTrack
  /\ \E url \in Urls, rej \in Rej :
       Commit(popstate(Cur, url, rej), Op("popstate", 0, url, << >>))

DOMContentLoaded ==
  /\ hasWindow
  /\ readyState = "loading"
  /\ CanTrack
  /\ \E rej \in Rej :
       Commit(domContentLoaded(Cur, rej),
              Op("DOMContentLoaded", 0, "", << >>))

FetchRejected ==
  /\ Len(inflight) > 0
  /\ Commit(fetchRejected(Cur),
            Op("fetchRejected", 0, IF Head(inflight) THEN "debug" ELSE "",
               << >>))

Next ==
  \/ CallInit
  \/ CallTrackEvent
  \/ CallTrackPageView
  \/ HandleTrackEvent
  \/ HandleTrackPageView
  \/ HandleDestroy
  \/ GlobalTrackPageView
  \/ GlobalTrackCustomEvent
  \/ Click
  \/ PushState
  \/ ReplaceState
  \/ PopState
  \/ DOMContentLoaded
  \/ FetchRejected

Spec == Init /\ [][Next]_vars

\* The same program with the history of each handle's configuration kept;
\* init is called with the flags trackPageViewOnInit false and the others
\* omitted.
OptionsBound ==
  { o \in Options : /\ o.trackPageViewOnInit = "false"
                    /\ o.trackSpaNavigation = "omitted"
                    /\ o.trackClicks = "omitted" }

CallInitBound ==
  /\ nextHandle < MaxHandles
  /\ CanTrack
  /\ \E options \in OptionsBound, rej \in Rej :
       /\ CommitState(init(Cur, options, rej),
                      [Op("init", nextHandle + 1,
                          options.trackPageViewOnInit, << >>)
                         EXCEPT !.endpoint = options.endpoint])
       /\ bound' = Append(bound, << options.siteId, options.endpoint >>)

NextBound ==
  \/ CallInitBound
  \/ CallTrackEvent
  \/ CallTrackPageView
  \/ HandleTrackEvent
  \/ HandleTrackPageView
  \/ HandleDestroy
  \/ GlobalTrackPageView
  \/ GlobalTrackCustomEvent
  \/ Click
  \/ PushState
  \/ ReplaceState
  \/ PopState
  \/ DOMContentLoaded
  \/ FetchRejected

SpecBound == Init /\ [][NextBound]_vars

\* The standalone script: the page sets the global slots, the script runs
\* once at load, and the page then uses the globals and the browser.
SiteIdSlots == {Undefined, "", "siteA"}
EndpointSlots == {Undefined, "", "epA"}
DebugSlots == {Undefined, "true", "false"}

InitStandalone == Init /\ hasWindow

Bootstrap ==
  /\ lastOp.name = "none"
  /\ CanTrack
  /\ \E siteId \in SiteIdSlots, endpoint \in EndpointSlots,
        debugSlot \in DebugSlots, rej \in Rej :
       Commit(bootstrap(Cur, siteId, endpoint, debugSlot, rej),
              [Op("bootstrap", 0, siteId, << >>)
                 EXCEPT !.endpoint = endpoint, !.debug = debugSlot])

NextStandalone ==
  \/ Bootstrap
  \/ GlobalTrackPageView
  \/ GlobalTrackCustomEvent
  \/ Click
  \/ PushState
  \/ ReplaceState
  \/ PopState
  \/ DOMContentLoaded
  \/ FetchRejected

SpecStandalone == InitStandalone /\ [][NextStandalone]_vars

\* ---------------------------------------------------------- observations
Fetches(o) == SelectSeq(o, LAMBDA e : e.kind = "fetch")

Warns(o) == SelectSeq(o, LAMBDA e : e.kind = "warn")

Positions(o, k) == { i \in 1..Len(o) : o[i].kind = k }

NavOps == {"pushState", "replaceState", "popstate"}

\* everything but the record of the last operation
progVars ==
  << instance, config, lastTrackedUrl, originalPushState, originalReplaceState,
     historyPushState, historyReplaceState, clickListener, popstateListener,
     dclListener, readyState, href, windowLwsAnalytics, windowLwsa, storage,
     storageMode, hasWindow, nextHandle, nextId, inflight, raised >>

\* ---------------------------------------------------------------- claims

\* C1: the current handle is never an earlier one than the handle of the
\* most recent init; an init in a browser makes the handle it returns
\* current, and when a session was active the previous handle's destroy is
\* invoked exactly once, before the new handle becomes current (and no
\* destroy is invoked when no session was active).
C1_Supersession ==
  [][ /\ (hasWindow' => getInstance(Cur)' \in {0, nextHandle'})
      /\ (lastOp'.name = "init" /\ hasWindow) =>
           /\ getInstance(Cur)' = lastOp'.h
           /\ Cardinality(Positions(out', "current")) = 1
           /\ \A j \in Positions(out', "current") : out'[j].h = lastOp'.h
           /\ Cardinality(Positions(out', "destroy"))
                = (IF instance # 0 THEN 1 ELSE 0)
           /\ \A i \in Positions(out', "destroy") :
                /\ out'[i].h = instance
                /\ \A j \in Positions(out', "current") : i < j
    ]_vars

\* C1 witness: a second init has superseded an active session.
C1_Witness ==
  /\ lastOp.name = "init"
  /\ instance = 2
  /\ Positions(out, "destroy") # {}

\* C2: isReady() is false initially, and after every operation it is true
\* iff getInstance() returns a handle; an init makes it true exactly in a
\* browser context, a destroy makes it false, and no other operation
\* changes it.
C2_ReadyIffSessionActive ==
  /\ ~isReady(Cur)
  /\ [][ /\ isReady(Cur)' = (getInstance(Cur)' # 0)
         /\ (lastOp'.name = "init" => (isReady(Cur)' = hasWindow))
         /\ (lastOp'.name = "handle.destroy" => ~isReady(Cur)')
         /\ (lastOp'.name \notin {"init", "handle.destroy"}
               => (isReady(Cur)' = isReady(Cur)))
       ]_vars

\* C2 witness: a session was started and then destroyed through its handle.
C2_Witness ==
  /\ lastOp.name = "handle.destroy"
  /\ hasWindow
  /\ lastOp.h = nextHandle
  /\ ~isReady(Cur)

\* C3 as stated: with SPA tracking enabled every navigation event is
\* followed by exactly one delivery when the resulting URL differs from the
\* marker and by none when it is equal.
C3_Original ==
  [][ (lastOp'.name \in NavOps /\ config.trackSpaNavigation)
        => Len(Fetches(out')) = (IF href' # lastTrackedUrl THEN 1 ELSE 0)
    ]_vars

\* C3 amended: in a session with SPA tracking enabled and a non-empty
\* endpoint every navigation event is followed by exactly one page-view
\* delivery for the resulting URL when that URL differs from the marker and
\* by none when it is equal; the marker then equals the resulting URL, and
\* only navigation, init and destroy change the marker, so no two
\* consecutive interceptor page views carry the same URL.
C3_NavigationDedup ==
  [][ /\ (lastOp'.name \in NavOps /\ config.trackSpaNavigation
            /\ ~Falsy(config.endpoint))
           => /\ Len(Fetches(out'))
                   = (IF href' # lastTrackedUrl THEN 1 ELSE 0)
              /\ \A i \in 1..Len(Fetches(out')) :
                   /\ Fetches(out')[i].payload.type = PAGE_VIEW
                   /\ Fetches(out')[i].payload.url = href'
                   /\ Fetches(out')[i].payload.url # lastTrackedUrl
      /\ (lastOp'.name \in NavOps /\ config.trackSpaNavigation)
           => lastTrackedUrl' = href'
      /\ (lastOp'.name \notin (NavOps \cup {"init", "handle.destroy"}))
           => lastTrackedUrl' = lastTrackedUrl
    ]_vars

\* C3 witness: a pushState to the URL already tracked, nothing delivered.
C3_Witness ==
  /\ lastOp.name = "pushState"
  /\ config.trackSpaNavigation
  /\ ~Falsy(config.endpoint)
  /\ lastOp.arg = "/a"
  /\ lastTrackedUrl = "/a"
  /\ Fetches(out) = << >>

\* C4: a destroy leaves getInstance() absent, and while no session is
\* active no operation or event other than init issues a delivery.
C4_NoDeliveryAfterDestroy ==
  [][ /\ (lastOp'.name = "handle.destroy" => getInstance(Cur)' = 0)
      /\ (instance = 0 /\ lastOp'.name # "init")
           => Fetches(out') = << >>
    ]_vars

\* C4 witness: a click on a marked element after the session was destroyed.
C4_Witness ==
  /\ lastOp.name = "click"
  /\ lastOp.chain = <<"x">>
  /\ nextHandle > 0
  /\ getInstance(Cur) = 0
  /\ Fetches(out) = << >>

\* C5 as stated: destroying the active session restores the history
\* functions, removes every listener init registered, clears marker,
\* configuration and handle, and removes the global compatibility object.
C5_DestroyReversesInit ==
  [][ (lastOp'.name = "handle.destroy" /\ hasWindow /\ instance # 0
         /\ lastOp'.h = instance)
        => /\ historyPushState' = Native
           /\ historyReplaceState' = Native
           /\ ~clickListener'
           /\ ~popstateListener'
           /\ ~dclListener'
           /\ lastTrackedUrl' = Null
           /\ config' = NullConfig
           /\ instance' = 0
           /\ ~windowLwsAnalytics'
    ]_vars

\* C6 as stated: destroy on a handle whose session is no longer the active
\* one changes no state.
C6_DestroyIdempotent ==
  [][ (lastOp'.name = "handle.destroy" /\ lastOp'.h # instance)
        => UNCHANGED progVars
    ]_vars

\* C7: every delivery goes to the active endpoint, which is then non-empty:
\* with an empty or missing endpoint (or no configuration) nothing is sent;
\* and no operation raises.
C7_NoFetchWithEmptyEndpoint ==
  [][ LET ep == IF lastOp'.name = "init" THEN config'.endpoint
                ELSE config.endpoint
      IN  /\ \A i \in Positions(out', "fetch") :
                out'[i].endpoint = ep /\ ~Falsy(ep)
          /\ ~raised'
    ]_vars

\* C7 witness: trackEvent("x") under a session with the empty endpoint.
C7_Witness ==
  /\ lastOp.name = "trackEvent"
  /\ lastOp.arg = "x"
  /\ instance # 0
  /\ config.endpoint = ""
  /\ Positions(out, "fetch") = {}

\* C8: an init with the document already interactive and a non-empty
\* endpoint issues exactly one delivery, of type page_view, when
\* trackPageViewOnInit is true or omitted, and none when it is false.
C8_InitialPageView ==
  [][ (lastOp'.name = "init" /\ hasWindow /\ readyState = "interactive"
         /\ ~Falsy(config'.endpoint))
        => IF lastOp'.arg \in {"true", "omitted"}
           THEN /\ Len(Fetches(out')) = 1
                /\ Fetches(out')[1].payload.type = PAGE_VIEW
           ELSE Fetches(out') = << >>
    ]_vars

\* C8 witness: init without trackPageViewOnInit has sent its page view.
C8_Witness ==
  /\ lastOp.name = "init"
  /\ lastOp.arg = "omitted"
  /\ readyState = "interactive"
  /\ Len(Fetches(out)) = 1

\* C9: while a session with a non-empty endpoint is active, trackEvent with
\* a non-empty name (module-level or through a handle) issues exactly one
\* delivery to the configured endpoint with type custom, that name and the
\* configured site identifier; trackPageView issues exactly one delivery of
\* type page_view.
C9_TrackDelivers ==
  [][ (instance # 0 /\ ~Falsy(config.endpoint))
        => /\ (lastOp'.name \in {"trackEvent", "handle.trackEvent"}
                 /\ ~Falsy(lastOp'.arg))
                => /\ Len(Fetches(out')) = 1
                   /\ Fetches(out')[1].endpoint = config.endpoint
                   /\ Fetches(out')[1].payload.type = CUSTOM
                   /\ Fetches(out')[1].payload.name = lastOp'.arg
                   /\ Fetches(out')[1].payload.identifier = config.siteId
           /\ (lastOp'.name \in {"trackPageView", "handle.trackPageView"})
                => /\ Len(Fetches(out')) = 1
                   /\ Fetches(out')[1].endpoint = config.endpoint
                   /\ Fetches(out')[1].payload.type = PAGE_VIEW
                   /\ Fetches(out')[1].payload.identifier = config.siteId
    ]_vars

\* C9 witness: trackEvent("x") delivered for site siteB.
C9_Witness ==
  /\ lastOp.name = "trackEvent"
  /\ lastOp.arg = "x"
  /\ Len(Fetches(out)) = 1
  /\ Fetches(out)[1].payload.identifier = "siteB"

\* C10: the module-level trackEvent and trackPageView called with no active
\* session send nothing, log exactly one warning, raise nothing and change
\* no state.
C10_NotInitialized ==
  [][ (lastOp'.name \in {"trackEvent", "trackPageView"} /\ instance = 0)
        => /\ Fetches(out') = << >>
           /\ Len(out') = 1
           /\ out'[1].kind = "warn"
           /\ out'[1].msg = "[LWS Analytics] Not initialized. Call init() first."
           /\ ~raised'
           /\ UNCHANGED progVars
    ]_vars

\* C10 witness: trackPageView() after the only session was destroyed.
C10_Witness ==
  /\ lastOp.name = "trackPageView"
  /\ instance = 0
  /\ nextHandle > 0
  /\ Len(Warns(out)) = 1

\* the elements of a click's ancestor chain that carry the attribute
Marked(chain) == { i \in 1..Len(chain) : chain[i] # NoAttr }

Nearest(chain) == CHOOSE i \in Marked(chain) : \A j \in Marked(chain) : i <= j

\* C11 as stated: trackEvent with an empty name in an active session sends
\* nothing and raises nothing; through the handle one warning is logged
\* whatever the debug flag, through the module-level function one warning is
\* logged when debug is enabled.
C11_EmptyNameWarns ==
  [][ (instance # 0 /\ lastOp'.arg = ""
         /\ lastOp'.name \in {"trackEvent", "handle.trackEvent"})
        => /\ Fetches(out') = << >>
           /\ ~raised'
           /\ (lastOp'.name = "handle.trackEvent" => Len(Warns(out')) = 1)
           /\ (lastOp'.name = "trackEvent" /\ config.debug
                 => Len(Warns(out')) = 1)
    ]_vars

\* C12: with working storage every delivered envelope carries the
\* identifier stored under the storage key, and a stored identifier is
\* never overwritten or removed, so all envelopes carry the same client_id.
C12_StableClientId ==
  [][ /\ (storageMode = "ok")
           => \A i \in Positions(out', "fetch") :
                /\ storage' # 0
                /\ out'[i].payload.client_id = << "", storage' >>
      /\ (storage # 0 => storage' = storage)
    ]_vars

\* C12 witness: the page view of a second session carries the identifier
\* stored during the first.
C12_Witness ==
  /\ storageMode = "ok"
  /\ lastOp.name = "init"
  /\ instance = 2
  /\ storage = 1
  /\ Len(Fetches(out)) = 1
  /\ Fetches(out)[1].payload.client_id = << "", 1 >>

\* C13: while storage raises nothing is raised outward, every delivered
\* envelope carries an identifier with the prefix session_ that was never
\* generated before, nothing is stored, and a trackEvent with a name in a
\* session with an endpoint is still delivered.
C13_EphemeralClientId ==
  [][ (storageMode # "ok")
        => /\ ~raised'
           /\ storage' = 0
           /\ \A i \in Positions(out', "fetch") :
                /\ out'[i].payload.client_id[1] = "session_"
                /\ out'[i].payload.client_id[2] > nextId
                /\ out'[i].payload.client_id[2] = nextId'
           /\ (lastOp'.name \in {"trackEvent", "handle.trackEvent"}
                 /\ ~Falsy(lastOp'.arg) /\ instance # 0
                 /\ ~Falsy(config.endpoint))
                => Len(Fetches(out')) = 1
    ]_vars

\* C13 witness: the second tracked action under a failing read carries a
\* second ephemeral identifier.
C13_Witness ==
  /\ storageMode = "readThrows"
  /\ nextId = 2
  /\ Len(Fetches(out)) = 1
  /\ Fetches(out)[1].payload.client_id = << "session_", 2 >>

\* C14 as stated: with click tracking enabled each click is followed by
\* exactly one custom delivery named by the nearest marked element's value
\* when that value is non-empty, and by none otherwise.
C14_Original ==
  [][ (lastOp'.name = "click" /\ config.trackClicks)
        => IF Marked(lastOp'.chain) # {}
              /\ lastOp'.chain[Nearest(lastOp'.chain)] # ""
           THEN /\ Len(Fetches(out')) = 1
                /\ Fetches(out')[1].payload.type = CUSTOM
                /\ Fetches(out')[1].payload.name
                     = lastOp'.chain[Nearest(lastOp'.chain)]
           ELSE Fetches(out') = << >>
    ]_vars

\* C14 amended: the same in a session whose endpoint is non-empty.
C14_ClickDelegate ==
  [][ (lastOp'.name = "click" /\ config.trackClicks
         /\ ~Falsy(config.endpoint))
        => IF Marked(lastOp'.chain) # {}
              /\ lastOp'.chain[Nearest(lastOp'.chain)] # ""
           THEN /\ Len(Fetches(out')) = 1
                /\ Fetches(out')[1].payload.type = CUSTOM
                /\ Fetches(out')[1].payload.name
                     = lastOp'.chain[Nearest(lastOp'.chain)]
           ELSE Fetches(out') = << >>
    ]_vars

\* C14 witness: a click on an unmarked child of an element marked "x".
C14_Witness ==
  /\ lastOp.name = "click"
  /\ lastOp.chain = << NoAttr, "x" >>
  /\ Len(Fetches(out)) = 1
  /\ Fetches(out)[1].payload.name = "x"

\* C15: a session with trackClicks false sends nothing on a click, and a
\* session with trackSpaNavigation false sends nothing on pushState,
\* replaceState or popstate.
C15_DisabledTracking ==
  [][ /\ (lastOp'.name = "click" /\ instance # 0 /\ ~config.trackClicks)
           => Fetches(out') = << >>
      /\ (lastOp'.name \in NavOps /\ instance # 0
            /\ ~config.trackSpaNavigation)
           => Fetches(out') = << >>
    ]_vars

\* C15 witness: a click on a marked element in a second session, started
\* with trackClicks false and an endpoint.
C15_Witness ==
  /\ lastOp.name = "click"
  /\ lastOp.chain = << "x" >>
  /\ instance = 2
  /\ ~config.trackClicks
  /\ ~Falsy(config.endpoint)
  /\ out = << >>

\* C16 as stated: the rejection of a transmission raises nothing, sends
\* nothing again, and logs exactly one warning when the transmission was
\* issued by a session with debug enabled.
C16_RejectionWarns ==
  [][ (lastOp'.name = "fetchRejected")
        => /\ ~raised'
           /\ Fetches(out') = << >>
           /\ (lastOp'.arg = "debug" => Len(Warns(out')) = 1)
    ]_vars

\* the default collection endpoint
DefaultEndpoint == "https://dashboard.lws-analytics.eu/api/track"

\* the number of warnings with message msg in o
WarnCount(o, msg) ==
  Cardinality({ i \in Positions(o, "warn") : o[i].msg = msg })

\* C17 as stated: every delivery issued through a handle's trackEvent or
\* trackPageView goes to the endpoint and carries the site identifier of the
\* configuration passed to the init that returned that handle (so a
\* superseded handle never delivers under a later session's configuration).
C17_HandleBoundToConfig ==
  [][ (lastOp'.name \in {"handle.trackEvent", "handle.trackPageView"})
        => \A i \in Positions(out', "fetch") :
             /\ out'[i].payload.identifier = bound[lastOp'.h][1]
             /\ out'[i].endpoint = bound[lastOp'.h][2]
    ]_vars

\* C18: a browser init publishes the global compatibility object; while a
\* session is active its trackPageView issues the one page_view delivery and
\* its trackCustomEvent the one custom delivery with the given name that the
\* current handle issues (none with an empty endpoint or an empty name).
C18_GlobalObject ==
  [][ /\ (lastOp'.name = "init" /\ hasWindow) => windowLwsAnalytics'
      /\ (instance # 0 /\ lastOp'.name = "LwsAnalytics.trackPageView")
           => IF Falsy(config.endpoint) THEN Fetches(out') = << >>
              ELSE /\ Len(Fetches(out')) = 1
                   /\ Fetches(out')[1].endpoint = config.endpoint
                   /\ Fetches(out')[1].payload.type = PAGE_VIEW
                   /\ Fetches(out')[1].payload.identifier = config.siteId
      /\ (instance # 0 /\ lastOp'.name = "LwsAnalytics.trackCustomEvent")
           => IF Falsy(config.endpoint) \/ lastOp'.arg = ""
              THEN Fetches(out') = << >>
              ELSE /\ Len(Fetches(out')) = 1
                   /\ Fetches(out')[1].endpoint = config.endpoint
                   /\ Fetches(out')[1].payload.type = CUSTOM
                   /\ Fetches(out')[1].payload.name = lastOp'.arg
                   /\ Fetches(out')[1].payload.identifier = config.siteId
    ]_vars

\* C18 witness: LwsAnalytics.trackCustomEvent("x") delivered in a session.
C18_Witness ==
  /\ lastOp.name = "LwsAnalytics.trackCustomEvent"
  /\ lastOp.arg = "x"
  /\ instance # 0
  /\ windowLwsAnalytics
  /\ Len(Fetches(out)) = 1
  /\ Fetches(out)[1].payload.type = CUSTOM
  /\ Fetches(out)[1].payload.name = "x"

C20_DefaultEndpoint ==
  [][ (lastOp'.name = "init" /\ hasWindow /\ lastOp'.endpoint = Undefined
         /\ ~Falsy(config'.siteId) /\ lastOp'.arg = "omitted"
         /\ readyState = "interactive")
        => /\ Len(Fetches(out')) = 1
           /\ Fetches(out')[1].endpoint = DefaultEndpoint
           /\ Fetches(out')[1].payload.type = PAGE_VIEW
    ]_vars

\* module state and browser state, without the count of handles handed out
stateButHandles ==
  << instance, config, lastTrackedUrl, originalPushState, originalReplaceState,
     historyPushState, historyReplaceState, clickListener, popstateListener,
     dclListener, readyState, href, windowLwsAnalytics, windowLwsa, storage,
     storageMode, hasWindow, nextId, inflight >>

\* C21: outside a browser, init raises nothing, logs exactly one warning and
\* leaves the session state as it was (isReady() and getInstance() answer as
\* before); the three operations of the handle it returns do nothing at all,
\* and no step ever issues a delivery.
C21_InertHandle ==
  [][ ~hasWindow
        => /\ Fetches(out') = << >>
           /\ lastOp'.name = "init"
                => /\ ~raised'
                   /\ Len(out') = 1
                   /\ out'[1].kind = "warn"
                   /\ out'[1].msg =
                        "[LWS Analytics] Cannot initialize in non-browser environment"
                   /\ getInstance(Cur)' = getInstance(Cur)
                   /\ isReady(Cur)' = isReady(Cur)
                   /\ UNCHANGED stateButHandles
           /\ lastOp'.name \in {"handle.trackPageView", "handle.trackEvent",
                                "handle.destroy"}
                => /\ out' = << >>
                   /\ UNCHANGED progVars
    ]_vars

\* an inert handle's trackEvent was called with a name and did nothing
C21_Witness ==
  /\ ~hasWindow
  /\ lastOp.name = "handle.trackEvent"
  /\ lastOp.arg = "x"
  /\ lastOp.h = 2
  /\ out = << >>
  /\ ~isReady(Cur)

\* C22 (as stated): the standalone script with an absent or empty site
\* identifier starts no session, delivers nothing and warns only when the
\* debug slot is true; with a site identifier it leaves a session active and
\* exactly one initial page view carrying that identifier delivered.
C22_Bootstrap ==
  [][ lastOp'.name = "bootstrap"
        => IF Falsy(lastOp'.arg)
           THEN /\ getInstance(Cur)' = 0
                /\ Fetches(out') = << >>
                /\ Len(Warns(out')) = (IF lastOp'.debug = "true" THEN 1 ELSE 0)
           ELSE /\ isReady(Cur)'
                /\ Len(Fetches(out')) = 1
                /\ Fetches(out')[1].payload.type = PAGE_VIEW
                /\ Fetches(out')[1].payload.identifier = lastOp'.arg
    ]_vars

\* C23 (as stated): the standalone script with a site identifier and the
\* endpoint slot unset starts a session and delivers the initial page view
\* to the default endpoint; with the slot set, to the configured endpoint
\* (the document being interactive when the script runs).
C23_BootstrapEndpoint ==
  [][ ( /\ lastOp'.name = "bootstrap"
        /\ ~Falsy(lastOp'.arg)
        /\ lastOp'.endpoint # ""
        /\ readyState = "interactive")
        => /\ isReady(Cur)'
           /\ Len(Fetches(out')) = 1
           /\ Fetches(out')[1].payload.type = PAGE_VIEW
           /\ Fetches(out')[1].endpoint =
                (IF lastOp'.endpoint = Undefined THEN DefaultEndpoint
                                                 ELSE lastOp'.endpoint)
    ]_vars

\* C24 (as stated): once the standalone script has started a session,
\* window.lwsa is defined.
C24_TerseGlobal ==
  (lastOp.name = "bootstrap" /\ isReady(Cur)) => windowLwsa

\* C25: no operation ever raises, whatever the session state, the event
\* name, the configuration fields, the behaviour of localStorage and the
\* outcome of the transmissions.
C25_NeverRaises == ~raised

\* a stale handle's trackEvent ran with no session and a storage that throws
C25_Witness ==
  /\ hasWindow
  /\ storageMode = "readThrows"
  /\ lastOp.name = "handle.trackEvent"
  /\ lastOp.arg = "x"
  /\ ~isReady(Cur)
  /\ nextId > 0
  /\ ~raised

\* C26 (as stated): an init with the automatic page view while the document
\* is loading delivers nothing; when the document becomes interactive,
\* exactly one page view is delivered if that session is still active, and
\* never more than one, whatever the number of such init calls before.
C26_Original ==
  [][ /\ (lastOp'.name = "init" /\ hasWindow /\ readyState = "loading")
           => Fetches(out') = << >>
      /\ (lastOp'.name = "DOMContentLoaded")
           => /\ Len(Fetches(out')) <= 1
              /\ (isReady(Cur) /\ config.trackPageViewOnInit)
                   => Len(Fetches(out')) = 1
    ]_vars

\* C26: an init with the automatic page view while the document is loading
\* delivers nothing; when the document becomes interactive, exactly one page
\* view is delivered if that session is still active and its endpoint is
\* non-empty, never more than one whatever the number of such init calls
\* before, and no deferred page view stays registered.
C26_DeferredPageView ==
  [][ /\ (lastOp'.name = "init" /\ hasWindow /\ readyState = "loading")
           => Fetches(out') = << >>
      /\ (lastOp'.name = "DOMContentLoaded")
           => /\ Len(Fetches(out')) <= 1
              /\ \A i \in 1..Len(Fetches(out')) :
                   Fetches(out')[i].payload.type = PAGE_VIEW
              /\ ~dclListener'
              /\ readyState' = "interactive"
              /\ (isReady(Cur) /\ config.trackPageViewOnInit
                    /\ ~Falsy(config.endpoint))
                   => Len(Fetches(out')) = 1
    ]_vars

\* the document became interactive after two init calls and the deferred
\* page view was delivered once
C26_Witness ==
  /\ lastOp.name = "DOMContentLoaded"
  /\ nextHandle = 2
  /\ instance = 2
  /\ config.trackPageViewOnInit
  /\ Len(Fetches(out)) = 1
  /\ Fetches(out)[1].payload.type = PAGE_VIEW

\* C27 (as stated): trackEvent through a handle or through window.LwsAnalytics
\* while no session is active delivers nothing, logs one warning and changes
\* no state, the stored client identifier included.
C27_StaleTrackEvent ==
  [][ ( /\ lastOp'.name \in {"handle.trackEvent",
                             "LwsAnalytics.trackCustomEvent"}
        /\ hasWindow
        /\ ~isReady(Cur)
        /\ nextHandle > 0 )
        => /\ Fetches(out') = << >>
           /\ Len(Warns(out')) = 1
           /\ UNCHANGED progVars
    ]_vars

\* C28: a call of a patched history function first performs the navigation
\* it was asked for and then compares: afterwards the current URL is the
\* requested one and equals the last-tracked-URL marker, and every page view
\* the call emits carries that URL.
C28_WrapperOrder ==
  [][ ( \/ lastOp'.name = "pushState" /\ historyPushState = Wrapper
        \/ lastOp'.name = "replaceState" /\ historyReplaceState = Wrapper )
        => /\ href' = lastOp'.arg
           /\ lastTrackedUrl' = href'
           /\ \A i \in 1..Len(Fetches(out')) :
                /\ Fetches(out')[i].payload.type = PAGE_VIEW
                /\ Fetches(out')[i].payload.url = href'
    ]_vars

\* a patched pushState navigated to a new URL and emitted its page view
C28_Witness ==
  /\ lastOp.name = "pushState"
  /\ lastOp.arg = "/a"
  /\ historyPushState = Wrapper
  /\ Len(Fetches(out)) = 1
  /\ Fetches(out)[1].payload.url = "/a"
  /\ lastTrackedUrl = "/a"

\* C29: a handle's destroy raises nothing; when the current configuration
\* has navigation tracking it puts the saved functions back into
\* history.pushState and history.replaceState and clears the saved
\* references, otherwise (tracking disabled, or no session left) it leaves
\* the history functions and the saved references untouched.
C29_TeardownRestores ==
  [][ (lastOp'.name = "handle.destroy" /\ hasWindow)
        => /\ ~raised'
           /\ IF config.trackSpaNavigation
              THEN /\ historyPushState' = originalPushState
                   /\ historyReplaceState' = originalReplaceState
                   /\ originalPushState' = Null
                   /\ originalReplaceState' = Null
                   /\ ~popstateListener'
              ELSE UNCHANGED << historyPushState, historyReplaceState,
                                originalPushState, originalReplaceState >>
    ]_vars

\* a destroy with no session left: the history functions are the native ones
C29_Witness ==
  /\ lastOp.name = "handle.destroy"
  /\ hasWindow
  /\ ~isReady(Cur)
  /\ Positions(out, "destroy") # {}
  /\ historyPushState = Native
  /\ historyReplaceState = Native
  /\ originalPushState = Null
  /\ originalReplaceState = Null

PageViews(o) == SelectSeq(o, LAMBDA e : e.kind = "fetch"
                                         /\ e.payload.type = PAGE_VIEW)

\* C31 (as stated): while a session started with trackPageViewOnInit=false
\* is active, a page view is delivered only by an explicit trackPageView
\* call or by an intercepted navigation; in particular not when the
\* document becomes interactive.
C31_NoAutomaticPageView ==
  [][ ( /\ isReady(Cur)
        /\ ~config.trackPageViewOnInit
        /\ lastOp'.name \notin
             (NavOps \cup {"init", "trackPageView", "handle.trackPageView",
                           "LwsAnalytics.trackPageView"}) )
        => PageViews(out') = << >>
    ]_vars

C33_MarkerInvariant ==
  [][ /\ (lastTrackedUrl' # Null)
           <=> (isReady(Cur)' /\ config'.trackSpaNavigation)
      /\ (lastOp'.name = "init" /\ hasWindow /\ config'.trackSpaNavigation)
           => /\ lastTrackedUrl' = href
              /\ href' = href
              /\ Len(Fetches(out')) <= 1
              /\ ~config'.trackPageViewOnInit => Fetches(out') = << >>
      /\ (lastOp'.name \in NavOps /\ isReady(Cur) /\ config.trackSpaNavigation)
           => lastTrackedUrl' = href'
      /\ (lastOp'.name \in {"trackEvent", "trackPageView", "handle.trackEvent",
                            "handle.trackPageView",
                            "LwsAnalytics.trackPageView",
                            "LwsAnalytics.trackCustomEvent", "click"})
           => lastTrackedUrl' = lastTrackedUrl
    ]_vars

\* a click delivered an event after a navigation; the marker kept the URL
C33_Witness ==
  /\ lastOp.name = "click"
  /\ Len(Fetches(out)) = 1
  /\ isReady(Cur)
  /\ config.trackSpaNavigation
  /\ href = "/a"
  /\ lastTrackedUrl = "/a"

====
